---- MODULE Spec2Model ----
(***************************************************************************)
(* badrobot: the rule-evaluation and reporting engine of pkg/ruler.        *)
(*                                                                         *)
(* Ruleset.Run splits the input bytes into documents and, for each one in  *)
(* source order, runs generateReport: one goroutine per catalog rule       *)
(* (eval) sends its RuleRef into a buffered channel; the caller waits on   *)
(* a WaitGroup, closes the channel, drains it into the report, sets the    *)
(* message and sorts the three buckets.                                    *)
(*                                                                         *)
(* Bytes are modelled as sequences of tokens.  "LF", "CR", "SP" and "-"    *)
(* are the bytes \n, \r, space and '-'.  A manifest token stands for the   *)
(* text of one manifest: "A" and "B" are YAML manifests, "J" is a JSON     *)
(* object, "X" is text that is not well-formed YAML.                       *)
(***************************************************************************)
EXTENDS Integers, Sequences, FiniteSets, TLC

\* ------------------------------------------------------------------ bounds

\* Largest match count a predicate returns on a manifest of the model.
MaxMatch == 1

\* Largest number of fragments a multi-document input is joined from.
MaxFragments == 3

\* ------------------------------------------------------------------ bytes

LF == "LF"
CR == "CR"
SP == "SP"
DASH == "-"

YAMLManifests == {"A", "B"}
JSONManifests == {"J"}
Manifests == YAMLManifests \cup JSONManifests
Malformed == "X"

\* unicode.IsSpace, as bytes.TrimSpace uses it, on the bytes of the model.
IsSpace(b) == b \in {LF, CR, SP}

\* bytes.HasPrefix(s[k-1:], sep), k counted from 1.
HasPrefixAt(s, sep, k) ==
  /\ k + Len(sep) - 1 <= Len(s)
  /\ \A j \in 1..Len(sep) : s[k + j - 1] = sep[j]

\* bytes.Contains(haystack, needle).
Contains(haystack, needle) ==
  \E k \in 1..(Len(haystack) + 1) : HasPrefixAt(haystack, needle, k)

\* bytes.Index(s, sep) counted from 1; 0 when sep does not occur.
Index(s, sep) ==
  IF Contains(s, sep)
  THEN CHOOSE k \in 1..(Len(s) + 1) :
         /\ HasPrefixAt(s, sep, k)
         /\ \A j \in 1..(k - 1) : ~HasPrefixAt(s, sep, j)
  ELSE 0

\* bytes.Split(s, sep) for a non-empty sep: the subslices between the
\* non-overlapping occurrences of sep, found left to right.
RECURSIVE Split(_, _)
Split(s, sep) ==
  LET k == Index(s, sep)
  IN  IF k = 0
      THEN <<s>>
      ELSE <<SubSeq(s, 1, k - 1)>> \o Split(SubSeq(s, k + Len(sep), Len(s)), sep)

RECURSIVE TrimLeft(_)
TrimLeft(s) ==
  IF s # <<>> /\ IsSpace(Head(s)) THEN TrimLeft(Tail(s)) ELSE s

RECURSIVE TrimRight(_)
TrimRight(s) ==
  IF s # <<>> /\ IsSpace(s[Len(s)]) THEN TrimRight(SubSeq(s, 1, Len(s) - 1)) ELSE s

\* bytes.TrimSpace(d).
TrimSpace(d) == TrimRight(TrimLeft(d))

\* detectLineBreak: CRLF only when the input holds one AND the host is windows.
detectLineBreak(haystack, hostOS) ==
  LET windowsLineEnding == Contains(haystack, <<CR, LF>>)
  IN  IF windowsLineEnding /\ hostOS = "windows" THEN <<CR, LF>> ELSE <<LF>>

\* The separator Run splits on: lineBreak + "---" + lineBreak.
Separator(lineBreak) == lineBreak \o <<DASH, DASH, DASH>> \o lineBreak

\* json.Valid taking no whitespace around the value.
jsonValidNoSpace(fileBytes) == Len(fileBytes) = 1 /\ fileBytes[1] \in JSONManifests

\* json.Valid(fileBytes): one JSON value, JSON whitespace around it allowed.
jsonValid(fileBytes) ==
  LET t == TrimSpace(fileBytes)
  IN  Len(t) = 1 /\ t[1] \in JSONManifests

\* The manifest tokens of a byte slice, in order.
ManifestsIn(doc) == SelectSeq(doc, LAMBDA b : b \in Manifests)

\* yaml.YAMLToJSON(doc) fails on text that is not well-formed YAML.
yamlFails(doc) == \E k \in 1..Len(doc) : doc[k] = Malformed

\* yaml.YAMLToJSON(doc) on well-formed text: the JSON form of the first YAML
\* document of doc; "scalar" is the JSON of a text that holds no manifest
\* (dashes only), which has no kind.
YAMLToJSON(doc) ==
  IF ManifestsIn(doc) = <<>> THEN "scalar" ELSE Head(ManifestsIn(doc))

\* The document generateReport gets on the JSON path: the bytes themselves.
AsJSON(fileBytes) == Head(ManifestsIn(fileBytes))

\* ---------------------------------------------------------------- catalog

\* Rule, as NewRuleset fills it.  Weight is set by no rule of the catalog and
\* keeps Go's zero value; Reason, Selector and Link are carried unread from
\* the rule to its RuleRef and are left out.
Rule(id, kinds, points, advise) ==
  [ID |-> id, Kinds |-> kinds, Points |-> points, Advise |-> advise, Weight |-> 0]

NamespacedKinds == {"Namespace", "Deployment", "ClusterRoleBinding"}
WorkloadKinds == {"Pod", "Deployment", "StatefulSet", "DaemonSet"}

\* NewRuleset: the catalog, in the order the rules are appended.
NewRuleset ==
  << Rule("DefaultNamespace", NamespacedKinds, -3, 0),
     Rule("KubeSystemNamespace", NamespacedKinds, -9, 0),
     Rule("NoSecurityContext", WorkloadKinds, -9, 0),
     Rule("ReadOnlyRootFilesystem", WorkloadKinds, 1, 3),
     Rule("RunAsNonRoot", WorkloadKinds, 1, 10),
     Rule("RunAsUser", WorkloadKinds, 1, 4),
     Rule("Privileged", WorkloadKinds, -30, 0),
     Rule("CapSysAdmin", WorkloadKinds, -30, 0),
     Rule("CapDropAny", WorkloadKinds, 1, 0),
     Rule("CapDropAll", WorkloadKinds, 1, 0),
     Rule("AllowPrivilegeEscalation", WorkloadKinds, -7, 0),
     Rule("ClusterAdmin", {"ClusterRoleBinding"}, -30, 0),
     Rule("StarAllClusterRole", {"ClusterRole"}, -30, 0),
     Rule("StarAllCoreAPIClusterRole", {"ClusterRole"}, -30, 0),
     Rule("StarClusterRoleAndBindings", {"ClusterRole"}, -9, 0),
     Rule("SecretsClusterRole", {"ClusterRole"}, -9, 0),
     Rule("ExecPodsClusterRole", {"ClusterRole"}, -9, 0),
     Rule("EscalateClusterRole", {"ClusterRole"}, -9, 0),
     Rule("BindClusterRole", {"ClusterRole"}, -9, 0),
     Rule("ImpersonateClusterRole", {"ClusterRole"}, -30, 0),
     Rule("ModifyPodLogsClusterRole", {"ClusterRole"}, -1, 0) >>

\* The rules the concurrent dispatch is explored with: one goroutine per rule
\* makes the interleavings of all 21 rules too many to enumerate, so rs.Rules
\* is the sub-catalog at these positions, in catalog order.  It holds rules of
\* negative and of positive Points and of three different Kinds sets.
CatalogSample == <<1, 4, 5, 7, 12>>

\* A catalog to which the last rule was appended twice.
rsRulesWithTwin ==
  [k \in 1..(Len(CatalogSample) + 1) |->
     NewRuleset[CatalogSample[IF k > Len(CatalogSample) THEN Len(CatalogSample) ELSE k]]]

\* rs.Rules.
rsRules == [k \in 1..Len(CatalogSample) |-> NewRuleset[CatalogSample[k]]]

RuleIdx == 1..Len(rsRules)
RuleIDs == {rsRules[r].ID : r \in RuleIdx}

\* The catalog's rule IDs in Go's string order (bytewise).
IDOrder ==
  << "AllowPrivilegeEscalation", "BindClusterRole", "CapDropAll", "CapDropAny",
     "CapSysAdmin", "ClusterAdmin", "DefaultNamespace", "EscalateClusterRole",
     "ExecPodsClusterRole", "ImpersonateClusterRole", "KubeSystemNamespace",
     "ModifyPodLogsClusterRole", "NoSecurityContext", "Privileged",
     "ReadOnlyRootFilesystem", "RunAsNonRoot", "RunAsUser", "SecretsClusterRole",
     "StarAllClusterRole", "StarAllCoreAPIClusterRole",
     "StarClusterRoleAndBindings" >>

IDRank(id) == CHOOSE k \in 1..Len(IDOrder) : IDOrder[k] = id

\* a < b on rule IDs.
IDLess(a, b) == IDRank(a) < IDRank(b)

\* -------------------------------------------------------------- documents

\* What a manifest holds: its kind, metadata.name and metadata.namespace
\* ("nil" when absent) and, for every rule, the match count the rule's
\* Predicate returns on it.  Predicates are pure: the count is a function of
\* the document alone.
KindSample == {"Deployment", "Pod", "ClusterRoleBinding", "Service"}

Applies(rule, kind) == kind \in rule.Kinds

ManifestsOfKind(kind) ==
  { [kind |-> kind, name |-> "nil", namespace |-> "nil", count |-> c,
     errs |-> {}] :
      c \in { f \in [RuleIDs -> 0..MaxMatch] :
                \A r \in RuleIdx : ~Applies(rsRules[r], kind) => f[rsRules[r].ID] = 0 } }

AnyManifest == UNION { ManifestsOfKind(k) : k \in KindSample }

\* A text that holds no manifest has no kind.
NoManifest ==
  [kind |-> "nil", name |-> "nil", namespace |-> "nil",
   count |-> [id \in RuleIDs |-> 0], errs |-> {}]

\* ---------------------------------------------------------------- reports

\* The RuleRef eval builds from a rule and the match count of its Predicate.
RuleRef(rule, containers) ==
  [Containers |-> containers, ID |-> rule.ID, Points |-> rule.Points,
   Weight |-> rule.Weight]

\* containsRule: reflect.DeepEqual against every element.
containsRule(rules, newRule) == \E k \in 1..Len(rules) : rules[k] = newRule

\* An insertion that does not look for an equal element.
appendAlways(uniqueRules, newRule) == Append(uniqueRules, newRule)

\* appendUniqueRule.
appendUniqueRule(uniqueRules, newRule) ==
  IF ~containsRule(uniqueRules, newRule)
  THEN Append(uniqueRules, newRule)
  ELSE uniqueRules

\* RuleRefCustomOrder.Less: Weight descending, then ID ascending.
Less(a, b) ==
  \/ a.Weight > b.Weight
  \/ a.Weight = b.Weight /\ IDLess(a.ID, b.ID)

RECURSIVE Insert(_, _)
Insert(sorted, x) ==
  IF sorted = <<>> THEN <<x>>
  ELSE IF Less(x, Head(sorted)) THEN <<x>> \o sorted
  ELSE <<Head(sorted)>> \o Insert(Tail(sorted), x)

\* sort.Sort(RuleRefCustomOrder(refs)).  Two RuleRefs of one bucket that Less
\* does not order are equal, so the sorted order is unique.
RECURSIVE SortRefs(_)
SortRefs(refs) ==
  IF refs = <<>> THEN <<>>
  ELSE Insert(SortRefs(SubSeq(refs, 1, Len(refs) - 1)), refs[Len(refs)])

\* getObjectName with the default of the namespace applied only to a
\* document that has a name.
getObjectNameDefaultsTied(m) ==
  IF m.kind = "nil" THEN "Unknown"
  ELSE m.kind
       \o (IF m.name = "nil" THEN "/undefined" ELSE "/" \o m.name)
       \o (IF m.namespace = "nil" /\ m.name # "nil" THEN ".default"
           ELSE "." \o m.namespace)

\* getObjectName: <kind>/<name>.<namespace>, "Unknown" without a kind.
getObjectName(m) ==
  IF m.kind = "nil" THEN "Unknown"
  ELSE m.kind
       \o (IF m.name = "nil" THEN "/undefined" ELSE "/" \o m.name)
       \o (IF m.namespace = "nil" THEN ".default" ELSE "." \o m.namespace)

\* The report generateReport starts from, once the object is named.  Schema
\* validation is disabled in generateReport: Valid is set unconditionally.
NewReport(fileName, m) ==
  [Object |-> getObjectName(m), FileName |-> fileName, Message |-> "",
   Score |-> 0, Valid |-> TRUE, Rules |-> <<>>,
   Scoring |-> [Critical |-> <<>>, Passed |-> <<>>, Advise |-> <<>>]]

\* Bucket with every result of match count 0 advised, whatever its Points.
BucketNoMatchAdvised(ruleRef) ==
  IF ruleRef.Containers > 0
  THEN IF ruleRef.Points >= 0 THEN "Passed" ELSE "Critical"
  ELSE "Advise"

\* Bucket with the sign test of the matched branch inverted.
BucketSignInverted(ruleRef) ==
  IF ruleRef.Containers > 0
  THEN IF ruleRef.Points >= 0 THEN "Critical" ELSE "Passed"
  ELSE IF ruleRef.Points >= 0 THEN "Advise" ELSE "none"

\* Which bucket the collect loop appends ruleRef to; "none" for no bucket.
Bucket(ruleRef) ==
  IF ruleRef.Containers > 0
  THEN IF ruleRef.Points >= 0 THEN "Passed" ELSE "Critical"
  ELSE IF ruleRef.Points >= 0 THEN "Advise" ELSE "none"

\* collect with the Points of an advised result added to Score as well.
collectScoringAdvise(report, ruleRef) ==
  LET b == Bucket(ruleRef)
  IN  [report EXCEPT
         !.Rules = appendUniqueRule(@, ruleRef),
         !.Score = IF b # "none" THEN @ + ruleRef.Points ELSE @,
         !.Scoring = IF b = "none" THEN report.Scoring
                     ELSE [report.Scoring EXCEPT
                             ![b] = Append(report.Scoring[b], ruleRef)]]

\* collect with Rules recording only the results that go to a bucket.
collectRecordsBucketedOnly(report, ruleRef) ==
  LET b == Bucket(ruleRef)
      scored == b \in {"Passed", "Critical"}
  IN  [report EXCEPT
         !.Rules = IF b = "none" THEN @ ELSE appendUniqueRule(@, ruleRef),
         !.Score = IF scored THEN @ + ruleRef.Points ELSE @,
         !.Scoring = IF b = "none" THEN report.Scoring
                     ELSE [report.Scoring EXCEPT
                             ![b] = Append(report.Scoring[b], ruleRef)]]

\* collect with the Points of a Critical result left out of Score.
collectCriticalUnscored(report, ruleRef) ==
  LET b == Bucket(ruleRef)
  IN  [report EXCEPT
         !.Rules = appendUniqueRule(@, ruleRef),
         !.Score = IF b = "Passed" THEN @ + ruleRef.Points ELSE @,
         !.Scoring = IF b = "none" THEN report.Scoring
                     ELSE [report.Scoring EXCEPT
                             ![b] = Append(report.Scoring[b], ruleRef)]]

\* One iteration of the collect loop on the report.
collect(report, ruleRef) ==
  LET b == Bucket(ruleRef)
      scored == b \in {"Passed", "Critical"}
  IN  [report EXCEPT
         !.Rules = appendUniqueRule(@, ruleRef),
         !.Score = IF scored THEN @ + ruleRef.Points ELSE @,
         !.Scoring = IF b = "none" THEN report.Scoring
                     ELSE [report.Scoring EXCEPT
                             ![b] = Append(report.Scoring[b], ruleRef)]]

\* The message generateReport sets after the loop.
MessageOfPositiveOnly(appliedRules, score) ==
  IF appliedRules < 1 THEN "This resource kind is not supported by badrobot"
  ELSE IF score > 0
       THEN "Passed with a score of " \o ToString(score) \o " points"
       ELSE "Failed with a score of " \o ToString(score) \o " points"

\* The message generateReport ends on.
MessageOf(appliedRules, score) ==
  IF appliedRules < 1 THEN "This resource kind is not supported by badrobot"
  ELSE IF score >= 0
       THEN "Passed with a score of " \o ToString(score) \o " points"
       ELSE "Failed with a score of " \o ToString(score) \o " points"

\* The end of generateReport without the sorts.
finishUnsorted(report, appliedRules) ==
  [report EXCEPT !.Message = MessageOf(appliedRules, report.Score)]

\* The end of generateReport: message, then the three sorts.
finish(report, appliedRules) ==
  [report EXCEPT
     !.Message = MessageOf(appliedRules, report.Score),
     !.Scoring = [Critical |-> SortRefs(report.Scoring.Critical),
                  Passed |-> SortRefs(report.Scoring.Passed),
                  Advise |-> SortRefs(report.Scoring.Advise)]]

\* ------------------------------------------------------------------ state

VARIABLES
  fileBytes,     \* Run's input bytes
  hostOS,        \* runtime.GOOS
  world,         \* what each manifest token holds
  mainpc,        \* where Run (and the generateReport it called) stands
  bits,          \* Run: the fragments of the split
  i,             \* Run: index of the fragment at hand, from 1
  reports,       \* Run: the reports built so far
  ret,           \* what Run returned: [reports, err], err "pending" before
  gen,           \* number of generateReport calls started
  json,          \* json[d]: the document of the d-th generateReport call
  report,        \* generateReport: the report being built
  next,          \* generateReport: position of the spawn loop in rs.Rules
  appliedRules,  \* generateReport: results collected
  pc,            \* pc[d][r]: the goroutine of rule r for document d
  wg,            \* wg[d]: the WaitGroup counter of call d
  ch,            \* ch[d]: the buffered channel of call d, oldest first
  closed,        \* closed[d]: close(ch) was called
  sent,          \* sent[d]: RuleRefs sent on ch[d], in send order (history)
  panicked,      \* a goroutine sent on a closed channel
  kubeval,       \* generateReport validates the document against its schema
  rs,            \* rs.Rules: the catalog the Ruleset holds
  arg,           \* the document a Predicate is called on by itself
  returned,      \* <<n>> once that Predicate has returned n, <<>> before
  verdict        \* verdict[d]: what the validator said of document d (history)

vars == << fileBytes, hostOS, world, mainpc, bits, i, reports, ret, gen, json,
           report, next, appliedRules, pc, wg, ch, closed, sent, panicked,
           kubeval, rs, arg, returned, verdict >>

runVars == << bits, i, reports, ret >>
\* What no step of Run, of the dispatch or of eval writes: the input, the host,
\* the build, the catalog and the validator's verdicts, which only the
\* validation writes, and the call of a Predicate by itself.
inputVars == << fileBytes, hostOS, world, kubeval, rs, arg, returned, verdict >>

FileName == "manifest"
HostOS == {"linux", "windows"}

\* An input of n fragments holds at most n documents.
DocIdx == 1..MaxFragments

\* An unbuffered channel, as make(chan RuleRef) gives.
CapacityUnbuffered == Len(<<>>)

\* cap(ch) == len(rs.Rules).
Capacity == Len(rsRules)

ManifestOf(doc) == IF doc \in Manifests THEN world[doc] ELSE NoManifest

\* ----------------------------------------------------------------- inputs

Sep == Separator(<<LF>>)
Marker == <<DASH, DASH, DASH>>

\* What stands between two separators of a multi-document input: nothing, a
\* manifest, malformed text, a bare marker, a blank line.
Fragments == {<<>>, <<"A">>, <<"B">>, <<Malformed>>, Marker, <<LF>>}

\* bytes.Join(fs, Sep).
RECURSIVE Join(_)
Join(fs) ==
  IF Len(fs) = 1 THEN Head(fs) ELSE Head(fs) \o Sep \o Join(Tail(fs))

BatchInputs ==
  { Join(fs) : fs \in UNION { [1..n -> Fragments] : n \in 1..MaxFragments } }

\* Inputs that are one JSON value.
JSONInputs == {<<"J">>, <<"J", LF>>}

DefaultWorld == [t \in Manifests |-> NoManifest]

InitCommon ==
  /\ hostOS \in (IF Contains(fileBytes, <<CR, LF>>) THEN HostOS ELSE {"linux"})
  /\ mainpc = "start"
  /\ bits = <<>>
  /\ i = 0
  /\ reports = <<>>
  /\ ret = [reports |-> <<>>, err |-> "pending"]
  /\ gen = 0
  /\ json = [d \in DocIdx |-> "unset"]
  /\ report = NewReport(FileName, NoManifest)
  /\ next = 1
  /\ appliedRules = 0
  /\ pc = [d \in DocIdx |-> [r \in RuleIdx |-> "idle"]]
  /\ wg = [d \in DocIdx |-> 0]
  /\ ch = [d \in DocIdx |-> <<>>]
  /\ closed = [d \in DocIdx |-> FALSE]
  /\ sent = [d \in DocIdx |-> <<>>]
  /\ panicked = FALSE
  /\ verdict = [d \in DocIdx |-> "none"]
  /\ rs = rsRules
  /\ arg = <<>>
  /\ returned = <<>>

\* One JSON document of any kind, with any match counts.
InitJSON ==
  /\ fileBytes \in JSONInputs
  /\ \E m \in AnyManifest : world = [DefaultWorld EXCEPT !["J"] = m]
  /\ kubeval = FALSE
  /\ InitCommon

\* A multi-document input; "A" is a ClusterRoleBinding with any match counts,
\* "B" a Service, on which no rule applies.
InitBatch ==
  /\ fileBytes \in BatchInputs
  /\ \E a \in ManifestsOfKind("ClusterRoleBinding"), b \in ManifestsOfKind("Service") :
       world = [DefaultWorld EXCEPT !["A"] = a, !["B"] = b]
  /\ kubeval = FALSE
  /\ InitCommon

Init == InitJSON \/ InitBatch

\* ---------------------------------------------------------------- Run

\* The fragment at hand, trimmed.
Doc == TrimSpace(bits[i])

\* "If empty or just a header".
EmptyOrHeader(doc) == Len(doc) = 0 \/ (Len(doc) = 3 /\ doc = Marker)

\* The end test one fragment early.
AtEndOffByOne == Len(bits) = i + 1 /\ Len(reports) = 0

\* The end test that forgets the reports built.
AtEndWhateverReports == Len(bits) = i

\* "if we're at the end and there are no reports".
AtEndWithoutReports == Len(bits) = i /\ Len(reports) = 0

\* The entry of generateReport up to the dispatch loop or, in the build that
\* validates, up to the call of the validator; Valid is false until then.
EnterReport(doc) ==
  /\ gen' = gen + 1
  /\ json' = [json EXCEPT ![gen + 1] = doc]
  /\ report' = [NewReport(FileName, ManifestOf(doc)) EXCEPT !.Valid = ~kubeval]
  /\ next' = 1
  /\ appliedRules' = 0
  /\ mainpc' = IF kubeval THEN "validate" ELSE "dispatch"

genVars == << gen, json, report, next, appliedRules >>
taskVars == << pc, wg, ch, closed, sent, panicked >>

\* Run, the input is valid JSON: it is the one document.
RunJSON ==
  /\ mainpc = "start" /\ ~panicked
  /\ jsonValid(fileBytes)
  /\ EnterReport(AsJSON(fileBytes))
  /\ UNCHANGED << inputVars, runVars, taskVars >>

\* Run, otherwise: split on the separator.
RunSplit ==
  /\ mainpc = "start" /\ ~panicked
  /\ ~jsonValid(fileBytes)
  /\ bits' = Split(fileBytes, Separator(detectLineBreak(fileBytes, hostOS)))
  /\ i' = 1
  /\ mainpc' = "loop"
  /\ UNCHANGED << inputVars, reports, ret, genVars, taskVars >>

InLoop == mainpc = "loop" /\ ~panicked /\ i <= Len(bits)

\* An empty fragment or a bare marker that is not the end of a fruitless input.
SkipFragment ==
  /\ InLoop
  /\ EmptyOrHeader(Doc)
  /\ ~AtEndWithoutReports
  /\ i' = i + 1
  /\ UNCHANGED << inputVars, mainpc, bits, reports, ret, genVars, taskVars >>

\* return nil, &InvalidInputError{}
FailInvalidInput ==
  /\ InLoop
  /\ EmptyOrHeader(Doc)
  /\ AtEndWithoutReports
  /\ ret' = [reports |-> <<>>, err |-> "InvalidInput"]
  /\ mainpc' = "done"
  /\ UNCHANGED << inputVars, bits, i, reports, genVars, taskVars >>

\* The conversion failure returning nil in place of the reports built.
FailConversionDropsReports ==
  /\ InLoop
  /\ ~EmptyOrHeader(Doc)
  /\ yamlFails(Doc)
  /\ ret' = [reports |-> <<>>, err |-> "yaml"]
  /\ mainpc' = "done"
  /\ UNCHANGED << inputVars, bits, i, reports, genVars, taskVars >>

\* yaml.YAMLToJSON failed: return reports, err
FailConversion ==
  /\ InLoop
  /\ ~EmptyOrHeader(Doc)
  /\ yamlFails(Doc)
  /\ ret' = [reports |-> reports, err |-> "yaml"]
  /\ mainpc' = "done"
  /\ UNCHANGED << inputVars, bits, i, reports, genVars, taskVars >>

\* The fragment converts: generateReport is called on its JSON.
BeginDocument ==
  /\ InLoop
  /\ ~EmptyOrHeader(Doc)
  /\ ~yamlFails(Doc)
  /\ EnterReport(YAMLToJSON(Doc))
  /\ UNCHANGED << inputVars, runVars, taskVars >>

\* return reports, nil
RunReturn ==
  /\ mainpc = "loop" /\ ~panicked
  /\ i > Len(bits)
  /\ ret' = [reports |-> reports, err |-> "nil"]
  /\ mainpc' = "done"
  /\ UNCHANGED << inputVars, bits, i, reports, genVars, taskVars >>

\* ------------------------------------------------------- generateReport

\* The spawn loop without wg.Add(1).
SpawnWithoutAdd ==
  /\ mainpc = "dispatch" /\ ~panicked
  /\ next <= Len(rs)
  /\ pc' = [pc EXCEPT ![gen][next] = "run"]
  /\ next' = next + 1
  /\ UNCHANGED << inputVars, runVars, mainpc, gen, json, report, appliedRules,
                  wg, ch, closed, sent, panicked >>

\* wg.Add(1); go eval(json, rule, ch, &wg)
Spawn ==
  /\ mainpc = "dispatch" /\ ~panicked
  /\ next <= Len(rs)
  /\ wg' = [wg EXCEPT ![gen] = @ + 1]
  /\ pc' = [pc EXCEPT ![gen][next] = "run"]
  /\ next' = next + 1
  /\ UNCHANGED << inputVars, runVars, mainpc, gen, json, report, appliedRules,
                  ch, closed, sent, panicked >>

\* A barrier that does not wait.
WaitWithoutBarrier(d) == TRUE

\* wg.Wait() returns when the counter is zero.
WaitReturns(d) == wg[d] = 0

Wait ==
  /\ mainpc = "dispatch" /\ ~panicked
  /\ next > Len(rs)
  /\ WaitReturns(gen)
  /\ mainpc' = "close"
  /\ UNCHANGED << inputVars, runVars, genVars, taskVars >>

\* close(ch)
Close ==
  /\ mainpc = "close" /\ ~panicked
  /\ closed' = [closed EXCEPT ![gen] = TRUE]
  /\ mainpc' = "collect"
  /\ UNCHANGED << inputVars, runVars, genVars, pc, wg, ch, sent, panicked >>

\* One iteration of "for ruleRef := range ch".
Collect ==
  /\ mainpc = "collect" /\ ~panicked
  /\ ch[gen] # <<>>
  /\ appliedRules' = appliedRules + 1
  /\ report' = collect(report, Head(ch[gen]))
  /\ ch' = [ch EXCEPT ![gen] = Tail(@)]
  /\ UNCHANGED << inputVars, runVars, mainpc, gen, json, next,
                  pc, wg, closed, sent, panicked >>

\* Finish with the report put in front of the reports built before.
FinishPrepends ==
  /\ mainpc = "collect" /\ ~panicked
  /\ ch[gen] = <<>>
  /\ closed[gen]
  /\ reports' = <<finish(report, appliedRules)>> \o reports
  /\ i' = i + 1
  /\ mainpc' = "loop"
  /\ UNCHANGED << inputVars, bits, ret, genVars, taskVars >>

\* The range loop ends on the closed, drained channel; generateReport sets
\* the message, sorts and returns, and Run appends the report.
Finish ==
  /\ mainpc = "collect" /\ ~panicked
  /\ ch[gen] = <<>>
  /\ closed[gen]
  /\ reports' = Append(reports, finish(report, appliedRules))
  /\ i' = i + 1
  /\ mainpc' = "loop"
  /\ UNCHANGED << inputVars, bits, ret, genVars, taskVars >>

\* ------------------------------------------------------------------ eval

\* rule.Eval(json): the kind filter, then the Predicate.
NotSupported(d, r) == ~Applies(rsRules[r], ManifestOf(json[d]).kind)

EvalCount(d, r) == ManifestOf(json[d]).count[rsRules[r].ID]

\* eval returning on *NotSupportedError without the deferred wg.Done().
EvalSkipWithoutDone(d, r) ==
  /\ pc[d][r] = "run" /\ ~panicked
  /\ NotSupported(d, r)
  /\ pc' = [pc EXCEPT ![d][r] = "done"]
  /\ UNCHANGED << inputVars, runVars, mainpc, genVars, wg, ch, closed, sent, panicked >>

\* eval without the return on *NotSupportedError: the result is sent.
EvalSkipFallsThrough(d, r) ==
  /\ pc[d][r] = "run" /\ ~panicked
  /\ NotSupported(d, r)
  /\ ~closed[d] /\ Len(ch[d]) < Capacity
  /\ ch' = [ch EXCEPT ![d] = Append(@, RuleRef(rsRules[r], EvalCount(d, r)))]
  /\ sent' = [sent EXCEPT ![d] = Append(@, RuleRef(rsRules[r], EvalCount(d, r)))]
  /\ pc' = [pc EXCEPT ![d][r] = "sent"]
  /\ UNCHANGED << inputVars, runVars, mainpc, genVars, wg, closed, panicked >>

\* eval, the rule does not apply to the kind: return, and the deferred wg.Done().
EvalSkip(d, r) ==
  /\ pc[d][r] = "run" /\ ~panicked
  /\ NotSupported(d, r)
  /\ pc' = [pc EXCEPT ![d][r] = "done"]
  /\ wg' = [wg EXCEPT ![d] = @ - 1]
  /\ UNCHANGED << inputVars, runVars, mainpc, genVars, ch, closed, sent, panicked >>

\* eval, the rule applies: ch <- result.  The send blocks while the buffer is
\* full and panics on a closed channel.
EvalSend(d, r) ==
  /\ pc[d][r] = "run" /\ ~panicked
  /\ ~NotSupported(d, r)
  /\ LET result == RuleRef(rsRules[r], EvalCount(d, r))
     IN  IF closed[d]
         THEN /\ panicked' = TRUE
              /\ UNCHANGED << pc, ch, sent >>
         ELSE /\ Len(ch[d]) < Capacity
              /\ ch' = [ch EXCEPT ![d] = Append(@, result)]
              /\ sent' = [sent EXCEPT ![d] = Append(@, result)]
              /\ pc' = [pc EXCEPT ![d][r] = "sent"]
              /\ panicked' = panicked
  /\ UNCHANGED << inputVars, runVars, mainpc, genVars, wg, closed >>

\* eval leaving a mark on the rule of the catalog it has evaluated.
EvalDoneMarksRule(d, r) ==
  /\ pc[d][r] = "sent" /\ ~panicked
  /\ pc' = [pc EXCEPT ![d][r] = "done"]
  /\ wg' = [wg EXCEPT ![d] = @ - 1]
  /\ rs' = [rs EXCEPT ![r].Weight = @ + 1]
  /\ UNCHANGED << fileBytes, hostOS, world, kubeval, arg, returned, verdict,
                  runVars, mainpc, genVars, ch, closed, sent, panicked >>

\* eval returns after the send: the deferred wg.Done().
EvalDone(d, r) ==
  /\ pc[d][r] = "sent" /\ ~panicked
  /\ pc' = [pc EXCEPT ![d][r] = "done"]
  /\ wg' = [wg EXCEPT ![d] = @ - 1]
  /\ UNCHANGED << inputVars, runVars, mainpc, genVars, ch, closed, sent, panicked >>

Task == \E d \in DocIdx, r \in RuleIdx : EvalSkip(d, r) \/ EvalSend(d, r) \/ EvalDone(d, r)

Next ==
  \/ RunJSON
  \/ RunSplit
  \/ SkipFragment
  \/ FailInvalidInput
  \/ FailConversion
  \/ BeginDocument
  \/ RunReturn
  \/ Spawn
  \/ Wait
  \/ Close
  \/ Collect
  \/ Finish
  \/ Task

Spec == Init /\ [][Next]_vars

\* ------------------------------------------------------ schema validation

\* What kubeval.Validate can say of a document: an error naming a schema that
\* was not found, any other error, results with field errors, a result without
\* a kind, or nothing to object to.
FailVerdicts == {"error404", "error", "fieldErrors", "noKind"}

\* The message generateReport sets for a verdict; the text of an error and the
\* descriptions of field errors are the validator's, each ends up non-empty.
ValidationMessage(v) ==
  CASE v = "error404" -> "This resource is invalid, unknown schema"
    [] v = "error" -> "err.Error()"
    [] v = "fieldErrors" -> "desc.String() "
    [] v = "noKind" -> "This resource is invalid, Kubernetes kind not found"

\* A failed validation that sets the message and goes on to the dispatch.
ValidateFailFallsThrough ==
  /\ mainpc = "validate" /\ ~panicked
  /\ \E v \in FailVerdicts :
       /\ verdict' = [verdict EXCEPT ![gen] = v]
       /\ report' = [report EXCEPT !.Message = ValidationMessage(v)]
  /\ mainpc' = "dispatch"
  /\ UNCHANGED << fileBytes, hostOS, world, kubeval, rs, arg, returned, runVars, gen, json, next,
                  appliedRules, taskVars >>

\* A failed validation that makes Run return an error.
ValidateFailAborts ==
  /\ mainpc = "validate" /\ ~panicked
  /\ \E v \in FailVerdicts : verdict' = [verdict EXCEPT ![gen] = v]
  /\ ret' = [reports |-> reports, err |-> "validation"]
  /\ mainpc' = "done"
  /\ UNCHANGED << fileBytes, hostOS, world, kubeval, rs, arg, returned, bits, i, reports, genVars,
                  taskVars >>

\* The validator objects: generateReport returns the report with the message,
\* Valid still false, and Run appends it and goes on with the next fragment.
ValidateFail ==
  /\ mainpc = "validate" /\ ~panicked
  /\ \E v \in FailVerdicts :
       /\ verdict' = [verdict EXCEPT ![gen] = v]
       /\ reports' = Append(reports, [report EXCEPT !.Message = ValidationMessage(v)])
  /\ i' = i + 1
  /\ mainpc' = "loop"
  /\ UNCHANGED << fileBytes, hostOS, world, kubeval, rs, arg, returned, bits, ret, genVars, taskVars >>

\* The validator has nothing to object to: report.Valid = true, then the
\* dispatch.
ValidateOK ==
  /\ mainpc = "validate" /\ ~panicked
  /\ verdict' = [verdict EXCEPT ![gen] = "ok"]
  /\ report' = [report EXCEPT !.Valid = TRUE]
  /\ mainpc' = "dispatch"
  /\ UNCHANGED << fileBytes, hostOS, world, kubeval, rs, arg, returned, runVars, gen, json, next,
                  appliedRules, taskVars >>

ValidatedFragments == {<<>>, <<"A">>, <<"B">>, <<Malformed>>}

ValidatedInputs ==
  { Join(fs) : fs \in UNION { [1..n -> ValidatedFragments] : n \in 1..MaxFragments } }
  \cup {<<"J">>}

\* A manifest of the kind on which every rule that applies matches once.
MatchingAll(kind) ==
  [kind |-> kind, name |-> "nil", namespace |-> "nil",
   count |-> [id \in RuleIDs |->
                IF \E r \in RuleIdx : rsRules[r].ID = id /\ Applies(rsRules[r], kind)
                THEN 1 ELSE 0],
   errs |-> {}]

\* The build that validates, on inputs of ClusterRoleBindings ("A", "J") and
\* Services ("B").
InitValidated ==
  /\ fileBytes \in ValidatedInputs
  /\ world = [DefaultWorld EXCEPT !["A"] = MatchingAll("ClusterRoleBinding"),
                                  !["B"] = MatchingAll("Service"),
                                  !["J"] = MatchingAll("ClusterRoleBinding")]
  /\ kubeval = TRUE
  /\ InitCommon

NextValidated == Next \/ ValidateFail \/ ValidateOK

SpecValidated == InitValidated /\ [][NextValidated]_vars

\* ------------------------------------------- an error of Rule.Eval

\* Manifests of the kind on which Rule.Eval returns, for one rule that applies,
\* an error that is no *NotSupportedError, with a count of 0.
FailingManifests(kind) ==
  { fm \in { [m EXCEPT !.errs = {rsRules[r].ID}] :
                m \in ManifestsOfKind(kind),
                r \in {x \in RuleIdx : Applies(rsRules[x], kind)} } :
      \A id \in fm.errs : fm.count[id] = 0 }

\* Rule.Eval returned an error other than *NotSupportedError for rule r on
\* document d.
EvalFailed(d, r) == rsRules[r].ID \in ManifestOf(json[d]).errs

\* One JSON Pod on which one rule's evaluation fails.
InitEvalError ==
  /\ fileBytes = <<"J">>
  /\ \E m \in FailingManifests("Pod") : world = [DefaultWorld EXCEPT !["J"] = m]
  /\ kubeval = FALSE
  /\ InitCommon

\* Run on one JSON document.
NextJSON ==
  \/ RunJSON
  \/ Spawn
  \/ Wait
  \/ Close
  \/ Collect
  \/ Finish
  \/ Task
  \/ RunReturn

SpecEvalError == InitEvalError /\ [][NextJSON]_vars

\* ----------------------------------------------- CRLF line breaks

SepCRLF == Separator(<<CR, LF>>)

RECURSIVE JoinCRLF(_)
JoinCRLF(fs) ==
  IF Len(fs) = 1 THEN Head(fs) ELSE Head(fs) \o SepCRLF \o JoinCRLF(Tail(fs))

\* Inputs whose fragments are joined by CRLF "---" CRLF, and a JSON input.
CRLFInputs ==
  { JoinCRLF(fs) : fs \in UNION { [1..n -> ValidatedFragments] : n \in 1..MaxFragments } }
  \cup {<<"J">>}

\* Run on an input with CRLF line breaks, on either host.
InitCRLF ==
  /\ fileBytes \in CRLFInputs
  /\ world = [DefaultWorld EXCEPT !["A"] = MatchingAll("ClusterRoleBinding"),
                                  !["B"] = MatchingAll("Service"),
                                  !["J"] = MatchingAll("ClusterRoleBinding")]
  /\ kubeval = FALSE
  /\ InitCommon

SpecCRLF == InitCRLF /\ [][Next]_vars

\* ------------------------------------------------- the object's name

\* Documents with and without kind, metadata.name and metadata.namespace; the
\* rules that apply to the kind match once.
NamedManifests ==
  { [MatchingAll(k) EXCEPT !.name = n, !.namespace = ns] :
      k \in {"nil", "Pod"}, n \in {"nil", "web"}, ns \in {"nil", "prod"} }

\* One JSON document of NamedManifests.
InitObject ==
  /\ fileBytes = <<"J">>
  /\ \E m \in NamedManifests : world = [DefaultWorld EXCEPT !["J"] = m]
  /\ kubeval = FALSE
  /\ InitCommon

SpecObject == InitObject /\ [][NextJSON]_vars

\* ------------------------------ the collect loop, on whatever has arrived

MaxArrivals == 3
MaxWeight == 1

\* The rules of the catalog for workloads only.
ArrivalRules == {r \in RuleIdx : rsRules[r].Kinds = WorkloadKinds}

\* The RuleRefs those rules can send, with any Weight a catalog could set.
ArrivalRefs ==
  { [RuleRef(rsRules[r], c) EXCEPT !.Weight = w] :
      r \in ArrivalRules, c \in 0..1, w \in 0..MaxWeight }

Arrivals == UNION { [1..n -> ArrivalRefs] : n \in 1..MaxArrivals }

\* generateReport at the head of "for ruleRef := range ch", the channel closed
\* and holding any sequence of results, equal ones included.
InitCollect ==
  /\ fileBytes = <<"J">>
  /\ hostOS = "linux"
  /\ world = [DefaultWorld EXCEPT !["J"] = MatchingAll("Pod")]
  /\ kubeval = FALSE
  /\ verdict = [d \in DocIdx |-> "none"]
  /\ rs = rsRules
  /\ arg = <<>>
  /\ returned = <<>>
  /\ mainpc = "collect"
  /\ bits = <<>>
  /\ i = 0
  /\ reports = <<>>
  /\ ret = [reports |-> <<>>, err |-> "pending"]
  /\ gen = 1
  /\ json = [d \in DocIdx |-> IF d = 1 THEN "J" ELSE "unset"]
  /\ report = NewReport(FileName, MatchingAll("Pod"))
  /\ next = Len(rsRules) + 1
  /\ appliedRules = 0
  /\ pc = [d \in DocIdx |-> [r \in RuleIdx |-> IF d = 1 THEN "done" ELSE "idle"]]
  /\ wg = [d \in DocIdx |-> 0]
  /\ \E refs \in Arrivals :
       /\ ch = [d \in DocIdx |-> IF d = 1 THEN refs ELSE <<>>]
       /\ sent = [d \in DocIdx |-> IF d = 1 THEN refs ELSE <<>>]
  /\ closed = [d \in DocIdx |-> d = 1]
  /\ panicked = FALSE

NextCollect == Collect \/ Finish \/ RunReturn

SpecCollect == InitCollect /\ [][NextCollect]_vars

\* ------------------------------------------------------- fair scheduling

\* One JSON document, a Pod or a ClusterRoleBinding.
InitFair ==
  /\ fileBytes = <<"J">>
  /\ \E k \in {"Pod", "ClusterRoleBinding"} :
       world = [DefaultWorld EXCEPT !["J"] = MatchingAll(k)]
  /\ kubeval = FALSE
  /\ InitCommon

\* The goroutine of Run is scheduled whenever it can take a step.
MainFairness ==
  WF_vars(RunJSON \/ Spawn \/ Wait \/ Close \/ Collect \/ Finish \/ RunReturn)

\* Every goroutine of eval is scheduled and its Predicate returns.
TaskFairness ==
  \A d \in DocIdx, r \in RuleIdx :
    WF_vars(EvalSkip(d, r) \/ EvalSend(d, r) \/ EvalDone(d, r))

SpecFair == InitFair /\ [][NextJSON]_vars /\ MainFairness /\ TaskFairness

\* ------------------------------------------- Predicates, called alone

\* No Run is under way: a Predicate is about to be called on arg.
InitPredicate ==
  /\ fileBytes = <<>>
  /\ hostOS = "linux"
  /\ world = DefaultWorld
  /\ kubeval = FALSE
  /\ verdict = [d \in DocIdx |-> "none"]
  /\ rs = rsRules
  /\ returned = <<>>
  /\ mainpc = "predicate"
  /\ bits = <<>>
  /\ i = 0
  /\ reports = <<>>
  /\ ret = [reports |-> <<>>, err |-> "pending"]
  /\ gen = 0
  /\ json = [d \in DocIdx |-> "unset"]
  /\ report = NewReport(FileName, NoManifest)
  /\ next = 1
  /\ appliedRules = 0
  /\ pc = [d \in DocIdx |-> [r \in RuleIdx |-> "idle"]]
  /\ wg = [d \in DocIdx |-> 0]
  /\ ch = [d \in DocIdx |-> <<>>]
  /\ closed = [d \in DocIdx |-> FALSE]
  /\ sent = [d \in DocIdx |-> <<>>]
  /\ panicked = FALSE

\* All but arg and returned.
programVars ==
  << fileBytes, hostOS, world, kubeval, rs, verdict, mainpc, runVars, genVars,
     taskVars >>

\* ---- RunAsUser

MaxContainers == 2

\* The threshold of the rule's selector, "runAsUser -gt 10000".
HighUID == 10000

\* securityContext.runAsUser of a container: <<>> when absent, <<uid>> when set.
UIDSample == {<<>>, <<1>>, <<999>>, <<HighUID>>, <<HighUID + 1>>, <<99999>>}

ContainerLists == UNION { [1..n -> UIDSample] : n \in 0..MaxContainers }

\* A Pod, or the pod template of a workload: its initContainers and containers.
Workloads == [initContainers : ContainerLists, containers : ContainerLists]

\* The count with a runAsUser equal to the threshold counted as well.
CountHighOrEqual(cs) ==
  Cardinality({k \in 1..Len(cs) : cs[k] # <<>> /\ cs[k][1] >= HighUID})

\* The containers of the list whose runAsUser is set and above the threshold.
CountHigh(cs) ==
  Cardinality({k \in 1..Len(cs) : cs[k] # <<>> /\ cs[k][1] > HighUID})

\* rules.RunAsUser
RunAsUser(doc) == CountHigh(doc.initContainers) + CountHigh(doc.containers)

InitRunAsUser == arg \in Workloads /\ InitPredicate

\* containers := RunAsUser(json)
CallRunAsUser ==
  /\ mainpc = "predicate"
  /\ returned = <<>>
  /\ returned' = <<RunAsUser(arg)>>
  /\ UNCHANGED << arg, programVars >>

SpecRunAsUser == InitRunAsUser /\ [][CallRunAsUser]_vars

\* ---- ExecPodsClusterRole

MaxEntries == 2

\* An entry of the rules list of a ClusterRole: its apiGroups, resources and
\* verbs, each a list of strings; "" is the core API group.
PolicyRules ==
  [apiGroups : {<<"">>, <<"apps">>, <<"", "apps">>},
   resources : {<<"pods">>, <<"pods/exec">>, <<"secrets">>},
   verbs : {<<"*">>, <<"get">>, <<"create">>, <<"get", "create">>, <<"list">>}]

\* The rules lists of the ClusterRoles.
ClusterRoles == UNION { [1..n -> PolicyRules] : n \in 0..MaxEntries }

\* strings.Contains(x, sub) for the strings of the lists above.
IsSubstring(sub, x) ==
  \/ sub = x
  \/ sub = "pods" /\ x = "pods/exec"

\* fmt.Sprintf("%v", xs) of a list of strings is "[" and "]" around the
\* elements joined by one space: it contains "[]" when nothing is printed
\* between the brackets.
PrintsEmptyBrackets(xs) == xs = <<>> \/ xs = <<"">>

\* strings.Contains(fmt.Sprintf("%v", From("rules").Only(field)), sub): the
\* lists of the field of all entries are printed in one string.
FieldContains(rules, field, sub) ==
  IF sub = "[]"
  THEN \/ rules = <<>>
       \/ \E k \in 1..Len(rules) : PrintsEmptyBrackets(rules[k][field])
  ELSE \E k \in 1..Len(rules) :
         \E j \in 1..Len(rules[k][field]) : IsSubstring(sub, rules[k][field][j])

\* rules.ExecPodsClusterRole: the chain of four tests, each on the three
\* printed strings.
ExecPodsClusterRole(rules) ==
  LET api(sub) == FieldContains(rules, "apiGroups", sub)
      res(sub) == FieldContains(rules, "resources", sub)
      verb(sub) == FieldContains(rules, "verbs", sub)
  IN  IF api("[]") /\ res("pods") /\ verb("*") THEN 1
      ELSE IF api("[]") /\ res("pods") /\ verb("get") /\ verb("create") THEN 1
      ELSE IF api("[]") /\ res("pods/exec") /\ verb("*") THEN 1
      ELSE IF api("[]") /\ res("pods/exec") /\ verb("get") /\ verb("create") THEN 1
      ELSE 0

InitExecPods == arg \in ClusterRoles /\ InitPredicate

\* The call of the Predicate on the ClusterRole.
CallExecPods ==
  /\ mainpc = "predicate"
  /\ returned = <<>>
  /\ returned' = <<ExecPodsClusterRole(arg)>>
  /\ UNCHANGED << arg, programVars >>

SpecExecPods == InitExecPods /\ [][CallExecPods]_vars

\* ----------------------------------------------------------------- claims

RECURSIVE SumPoints(_)
SumPoints(refs) ==
  IF refs = <<>> THEN 0 ELSE Head(refs).Points + SumPoints(Tail(refs))

Elems(refs) == {refs[k] : k \in 1..Len(refs)}

IDsOf(refs) == {refs[k].ID : k \in 1..Len(refs)}

Buckets == {"Critical", "Passed", "Advise"}

\* The calls of generateReport that have returned.
Built == 1..Len(reports)

\* The report of the call at hand is complete: appliedRules is its count.
LastBuilt == gen > 0 /\ Len(reports) = gen

\* The rules whose goroutine sends a result for document d, in catalog order.
Applied(d) == SelectSeq([r \in RuleIdx |-> r], LAMBDA r : ~NotSupported(d, r))

ResultOf(d, r) == RuleRef(rsRules[r], EvalCount(d, r))

\* The results of document d that the collect loop puts in no bucket.
Unbucketed(d) ==
  {k \in 1..Len(sent[d]) : sent[d][k].Points < 0 /\ sent[d][k].Containers = 0}

RECURSIVE CollectAll(_, _)
CollectAll(rep, refs) ==
  IF refs = <<>> THEN rep ELSE CollectAll(collect(rep, Head(refs)), Tail(refs))

\* The report of document d in the run where the goroutines send in catalog
\* order.
InOrderReport(d) ==
  LET refs == [k \in 1..Len(Applied(d)) |-> ResultOf(d, Applied(d)[k])]
  IN  finish(CollectAll(NewReport(FileName, ManifestOf(json[d])), refs), Len(refs))

\* C1: in every report Run builds or returns, under every interleaving, Score
\* is the sum of Points over Scoring.Critical and Scoring.Passed; the entries
\* of Scoring.Advise add nothing.
C1_ScoreIsSumOfCriticalAndPassed ==
  \A rep \in Elems(reports) \cup Elems(ret.reports) :
    rep.Score = SumPoints(rep.Scoring.Critical) + SumPoints(rep.Scoring.Passed)

\* A returned report with entries in all three buckets.
C1_Witness ==
  /\ ret.err = "nil"
  /\ \E rep \in Elems(ret.reports) :
       \A b \in Buckets : rep.Scoring[b] # <<>>

\* C2 as stated: appliedRules equals |Passed| + |Critical| + |Advise|.
C2_AppliedIsBucketTotal ==
  LastBuilt =>
    LET sc == reports[gen].Scoring
    IN  appliedRules = Len(sc.Passed) + Len(sc.Critical) + Len(sc.Advise)

\* C2 amended: appliedRules equals |Passed| + |Critical| + |Advise| plus the
\* number of collected results with negative Points and a match count of 0,
\* which are counted but put in no bucket.
C2_AppliedIsBucketTotalPlusUnbucketed ==
  LastBuilt =>
    LET sc == reports[gen].Scoring
    IN  /\ appliedRules = Len(sent[gen])
        /\ appliedRules = Len(sc.Passed) + Len(sc.Critical) + Len(sc.Advise)
                          + Cardinality(Unbucketed(gen))

\* A complete report with results in buckets and a result in none.
C2_Witness ==
  /\ LastBuilt
  /\ Unbucketed(gen) # {}
  /\ reports[gen].Scoring.Passed # <<>>
  /\ reports[gen].Scoring.Advise # <<>>

\* The rule r applies to document d, has negative Points and matched nothing.
NegativeNoMatch(d, r) ==
  /\ ~NotSupported(d, r)
  /\ rsRules[r].Points < 0
  /\ EvalCount(d, r) = 0

\* C3 as stated: a rule with negative Points and a match count of 0 is neither
\* in Rules nor in any bucket of the document's report.
C3_NegativeNoMatchNowhere ==
  \A d \in Built, r \in RuleIdx :
    NegativeNoMatch(d, r) =>
      /\ rsRules[r].ID \notin IDsOf(reports[d].Rules)
      /\ \A b \in Buckets : rsRules[r].ID \notin IDsOf(reports[d].Scoring[b])

\* C3 amended: such a rule is in none of Critical, Passed and Advise; it is
\* recorded in Rules, with Containers 0.
C3_NegativeNoMatchInNoBucket ==
  \A d \in Built, r \in RuleIdx :
    NegativeNoMatch(d, r) =>
      /\ \A b \in Buckets : rsRules[r].ID \notin IDsOf(reports[d].Scoring[b])
      /\ ResultOf(d, r) \in Elems(reports[d].Rules)
      /\ ResultOf(d, r).Containers = 0

\* A built report of a document on which a negative rule matched nothing
\* while another negative rule matched.
C3_Witness ==
  \E d \in Built, r \in RuleIdx :
    /\ NegativeNoMatch(d, r)
    /\ reports[d].Scoring.Critical # <<>>

\* C4: the reports Run returns are those of the run in which the goroutines
\* send in catalog order, whatever the scheduling: two runs on the same bytes
\* return identical lists, the order of Rules and of the buckets included.
C4_Deterministic ==
  ret.err # "pending" =>
    \A d \in 1..Len(ret.reports) : ret.reports[d] = InOrderReport(d)


\* C5: every collected result is classified by (matchCount, Points) as the
\* table says: matched and Points >= 0 in Passed only, matched and Points < 0
\* in Critical only, unmatched and Points >= 0 in Advise only, unmatched and
\* Points < 0 in no bucket; no RuleRef is in more than one bucket.
C5_Classification ==
  \A d \in Built :
    LET sc == reports[d].Scoring
    IN  /\ \A r \in RuleIdx :
             ~NotSupported(d, r) =>
               LET ref == ResultOf(d, r)
                   matched == EvalCount(d, r) > 0
                   nonNegative == rsRules[r].Points >= 0
               IN  /\ ref \in Elems(sc.Passed) <=> (matched /\ nonNegative)
                   /\ ref \in Elems(sc.Critical) <=> (matched /\ ~nonNegative)
                   /\ ref \in Elems(sc.Advise) <=> (~matched /\ nonNegative)
        /\ \A a, b \in Buckets : a # b => Elems(sc[a]) \cap Elems(sc[b]) = {}

\* A built report whose document gives all four rows of the table.
C5_Witness ==
  \E d \in Built :
    /\ \A b \in Buckets : reports[d].Scoring[b] # <<>>
    /\ \E r \in RuleIdx : NegativeNoMatch(d, r)

\* C6: a goroutine about to send always finds room in the channel, whose
\* capacity is the catalog size: no send blocks, although nothing is received
\* before all goroutines are done; each goroutine sends at most one result.
C6_NoSendBlocks ==
  \A d \in DocIdx :
    /\ \A r \in RuleIdx :
         (pc[d][r] = "run" /\ ~NotSupported(d, r)) => Len(ch[d]) < Capacity
    /\ Len(sent[d]) <= Len(rsRules)
    /\ Cardinality(IDsOf(sent[d])) = Len(sent[d])

\* Three results wait in the channel, unreceived, while a fourth goroutine is
\* about to send.
C6_Witness ==
  /\ mainpc = "dispatch"
  /\ \E r \in RuleIdx :
       /\ pc[gen][r] = "run"
       /\ ~NotSupported(gen, r)
       /\ Len(ch[gen]) >= 3

\* C7: the channel is closed only once every goroutine of the call is done, no
\* goroutine sends on a closed channel, and the drain collects every result
\* that was sent exactly once, in send order.
C7_CloseAfterBarrierAndNothingLost ==
  /\ ~panicked
  /\ \A d \in DocIdx : closed[d] => \A r \in RuleIdx : pc[d][r] = "done"
  /\ mainpc = "collect" =>
       /\ sent[gen] = report.Rules \o ch[gen]
       /\ appliedRules = Len(report.Rules)
  /\ \A d \in Built : reports[d].Rules = sent[d]
  /\ LastBuilt => appliedRules = Len(sent[gen])

\* A call that has closed its channel and collected four results.
C7_Witness ==
  /\ LastBuilt
  /\ closed[gen]
  /\ Len(sent[gen]) >= 4
  /\ appliedRules = Len(sent[gen])

\* C8: documents are processed one after the other: a goroutine is running
\* only for the document at hand and only while its call dispatches; every
\* earlier document has all its goroutines done and its report built; no
\* later document has started; a channel holds only results of its own
\* document's goroutines.
C8_DocumentsSequential ==
  \A d \in DocIdx :
    /\ d < gen => /\ \A r \in RuleIdx : pc[d][r] = "done"
                  /\ d <= Len(reports)
                  /\ ch[d] = <<>>
    /\ d > gen => /\ \A r \in RuleIdx : pc[d][r] = "idle"
                  /\ sent[d] = <<>>
    /\ (\E r \in RuleIdx : pc[d][r] \in {"run", "sent"}) =>
         d = gen /\ mainpc = "dispatch"
    /\ \A k \in 1..Len(sent[d]) :
         \E r \in RuleIdx : ~NotSupported(d, r) /\ sent[d][k] = ResultOf(d, r)

\* The goroutines of a second document run after the first document's two
\* results were collected into its report.
C8_Witness ==
  /\ gen = 2
  /\ Len(reports) = 1
  /\ Len(reports[1].Rules) = 2
  /\ \E r \in RuleIdx : pc[2][r] = "run"

\* The fragments before the k-th that are neither empty nor a bare marker.
Retained(k) ==
  SelectSeq([j \in 1..(k - 1) |-> j], LAMBDA j : ~EmptyOrHeader(TrimSpace(bits[j])))

\* Two reports that differ at most in the order of Rules.
SameUpToRulesOrder(a, b) ==
  /\ [a EXCEPT !.Rules = <<>>] = [b EXCEPT !.Rules = <<>>]
  /\ Elems(a.Rules) = Elems(b.Rules)
  /\ Len(a.Rules) = Len(b.Rules)

\* C9: when the conversion of fragment k fails, Run returns the error with
\* exactly the reports of the retained fragments before k, in source order,
\* and no later fragment is converted or evaluated.
C9_ConversionFailureKeepsEarlierReports ==
  ret.err = "yaml" =>
    /\ mainpc = "done"
    /\ yamlFails(TrimSpace(bits[i]))
    /\ ret.reports = reports
    /\ Len(reports) = Len(Retained(i))
    /\ gen = Len(Retained(i))
    /\ \A n \in 1..Len(reports) :
         /\ json[n] = YAMLToJSON(TrimSpace(bits[Retained(i)[n]]))
         /\ SameUpToRulesOrder(reports[n], InOrderReport(n))

\* The second of three fragments failed: the report of the first is returned
\* and the manifest after the failure was left alone.
C9_Witness ==
  /\ ret.err = "yaml"
  /\ Len(ret.reports) = 1
  /\ i = 2
  /\ Len(bits) = 3
  /\ ~EmptyOrHeader(TrimSpace(bits[3]))
  /\ ~yamlFails(TrimSpace(bits[3]))

\* Every fragment of the input is empty, whitespace or a bare marker.
AllBlank(input) ==
  LET fs == Split(input, Sep)
  IN  \A j \in 1..Len(fs) : TrimSpace(fs[j]) \in {<<>>, Marker}

\* C10: an input that is not valid JSON and whose fragments are all empty,
\* whitespace or a bare marker makes Run fail with InvalidInputError and no
\* reports; Run never returns an empty report list with a nil error.
C10_BlankInputIsInvalid ==
  ret.err # "pending" =>
    /\ (~jsonValid(fileBytes) /\ AllBlank(fileBytes)) =>
         /\ ret = [reports |-> <<>>, err |-> "InvalidInput"]
         /\ gen = 0
    /\ ~(ret.err = "nil" /\ ret.reports = <<>>)

\* Run failed with InvalidInputError on an input of several fragments, one of
\* them a bare marker.
C10_Witness ==
  /\ ret = [reports |-> <<>>, err |-> "InvalidInput"]
  /\ Len(bits) >= 2
  /\ \E j \in 1..Len(bits) : TrimSpace(bits[j]) = Marker
  /\ \E j \in 1..Len(bits) : bits[j] = <<LF>>

\* Run returned on a split input none of whose fragments failed to convert.
ReturnedAllConverted ==
  /\ ret.err # "pending"
  /\ ~jsonValid(fileBytes)
  /\ \A j \in 1..Len(bits) : ~yamlFails(TrimSpace(bits[j]))

\* The fragments that are not empty once trimmed, bare markers included.
NonEmpty == SelectSeq([j \in 1..Len(bits) |-> j], LAMBDA j : TrimSpace(bits[j]) # <<>>)

\* C11 as stated: on a non-JSON input whose every non-empty fragment converts,
\* Run returns one report per non-empty fragment and a nil error.
C11_OneReportPerNonEmptyFragment ==
  ReturnedAllConverted =>
    /\ ret.err = "nil"
    /\ Len(ret.reports) = Len(NonEmpty)

\* C11 amended: on a non-JSON input with at least one fragment that is neither
\* empty nor a bare marker, and whose every such fragment converts, Run
\* returns a nil error and exactly one report per such fragment, in source
\* order; the input "A" SEP "B" gives two reports, of A and then of B.
C11_OneReportPerRetainedFragment ==
  LET kept == Retained(Len(bits) + 1)
  IN  /\ (ReturnedAllConverted /\ kept # <<>>) =>
           /\ ret = [reports |-> reports, err |-> "nil"]
           /\ Len(reports) = Len(kept)
           /\ gen = Len(kept)
           /\ \A n \in 1..Len(reports) :
                /\ json[n] = YAMLToJSON(TrimSpace(bits[kept[n]]))
                /\ SameUpToRulesOrder(reports[n], InOrderReport(n))
      /\ (ret.err # "pending" /\ fileBytes = Join(<< <<"A">>, <<"B">> >>)) =>
           /\ ret.err = "nil"
           /\ Len(ret.reports) = 2
           /\ ret.reports[1].Object = getObjectName(world["A"])
           /\ ret.reports[2].Object = getObjectName(world["B"])

\* Run returned the reports of "A" SEP "B": that of A, with its two rules, and
\* then that of B.
C11_Witness ==
  /\ fileBytes = Join(<< <<"A">>, <<"B">> >>)
  /\ ret.err = "nil"
  /\ Len(ret.reports) = 2
  /\ Len(ret.reports[1].Rules) = 2
  /\ ret.reports[1].Object # ret.reports[2].Object

\* The input "A" SEP "", with nothing after the separator, gives one report and
\* a nil error.
C12_TrailingSeparator ==
  (ret.err # "pending" /\ fileBytes = <<"A">> \o Sep) =>
    /\ ret.err = "nil"
    /\ Len(ret.reports) = 1
    /\ gen = 1

\* C12: a fragment that is empty or a bare marker, and is not the last one or
\* comes after a report, is skipped: the loop moves to the next fragment, no
\* report is built and Run does not return; "A" SEP "" gives one report and a
\* nil error.
C12_BlankFragmentSkipped ==
  /\ []C12_TrailingSeparator
  /\ [][ (InLoop /\ EmptyOrHeader(Doc) /\ (i < Len(bits) \/ Len(reports) >= 1)) =>
           /\ i' = i + 1
           /\ mainpc' = "loop"
           /\ reports' = reports
           /\ gen' = gen
           /\ ret' = ret /\ ret.err = "pending" ]_vars

\* Run returned one report for "A" SEP "", whose second fragment is empty.
C12_Witness ==
  /\ fileBytes = <<"A">> \o Sep
  /\ Len(bits) = 2
  /\ bits[2] = <<>>
  /\ ret.err = "nil"
  /\ Len(ret.reports) = 1

\* C13: a valid JSON input is not split: generateReport is called once, on
\* the input itself, and Run returns its report with a nil error.
C13_JSONIsOneDocument ==
  fileBytes \in JSONInputs =>
    /\ bits = <<>>
    /\ gen <= 1
    /\ gen = 1 => json[1] = AsJSON(fileBytes)
    /\ ret.err # "pending" =>
         /\ ret.err = "nil"
         /\ Len(ret.reports) = 1
         /\ SameUpToRulesOrder(ret.reports[1], InOrderReport(1))

\* Run returned the one report of a JSON input that ends in a line break.
C13_Witness ==
  /\ fileBytes = <<"J", LF>>
  /\ ret.err = "nil"
  /\ Len(ret.reports) = 1
  /\ Len(ret.reports[1].Rules) >= 2

C15_ValidationFailureDoesNotAbort ==
  LET kept == Retained(Len(bits) + 1)
  IN  /\ ret.err \in {"pending", "nil", "yaml", "InvalidInput"}
      /\ \A d \in DocIdx : verdict[d] \in FailVerdicts => d \in Built
      /\ (ReturnedAllConverted /\ kept # <<>>) =>
           /\ ret = [reports |-> reports, err |-> "nil"]
           /\ Len(reports) = Len(kept)
           /\ \A n \in 1..Len(reports) :
                /\ json[n] = YAMLToJSON(TrimSpace(bits[kept[n]]))
                /\ verdict[n] # "none"
                /\ reports[n].Valid <=> verdict[n] = "ok"
                /\ verdict[n] = "ok" =>
                     SameUpToRulesOrder(reports[n], InOrderReport(n))
      /\ (ret.err # "pending" /\ jsonValid(fileBytes)) =>
           /\ ret.err = "nil"
           /\ Len(ret.reports) = 1

\* Run returned three reports and a nil error; the validator found no schema
\* for the second document, and the third was evaluated all the same.
C15_Witness ==
  /\ ret.err = "nil"
  /\ Len(ret.reports) = 3
  /\ verdict[1] = "ok"
  /\ verdict[2] = "error404"
  /\ ~ret.reports[2].Valid
  /\ verdict[3] = "ok"
  /\ Len(ret.reports[3].Rules) = 2

\* C16 as stated: a rule whose evaluation failed with an error that is no
\* *NotSupportedError sends no RuleRef, is not counted in appliedRules and is
\* in neither Rules nor a bucket of the report.
C16_FailedEvalDropped ==
  \A d \in DocIdx, r \in RuleIdx :
    EvalFailed(d, r) =>
      /\ rsRules[r].ID \notin IDsOf(sent[d])
      /\ d \in Built =>
           /\ rsRules[r].ID \notin IDsOf(reports[d].Rules)
           /\ \A b \in Buckets : rsRules[r].ID \notin IDsOf(reports[d].Scoring[b])
      /\ (LastBuilt /\ d = gen) =>
           appliedRules = Cardinality({x \in RuleIdx : ~NotSupported(d, x) /\ ~EvalFailed(d, x)})

\* The goroutines of document d that have not called wg.Done().
Unfinished(d) == {r \in RuleIdx : pc[d][r] \in {"run", "sent"}}

\* C17: a rule that does not apply to the kind of the document sends nothing:
\* it is not among the results sent, not counted in appliedRules, in neither
\* Rules nor a bucket; its goroutine still calls wg.Done(), the counter of the
\* WaitGroup being the number of goroutines yet to finish.
C17_NotApplicableSendsNothing ==
  /\ \A d \in DocIdx :
       /\ wg[d] = Cardinality(Unfinished(d))
       /\ \A r \in RuleIdx :
            NotSupported(d, r) =>
              /\ rsRules[r].ID \notin IDsOf(sent[d])
              /\ rsRules[r].ID \notin IDsOf(ch[d])
              /\ pc[d][r] \in {"idle", "run", "done"}
              /\ d \in Built =>
                   /\ pc[d][r] = "done"
                   /\ rsRules[r].ID \notin IDsOf(reports[d].Rules)
                   /\ \A b \in Buckets :
                        rsRules[r].ID \notin IDsOf(reports[d].Scoring[b])
  /\ LastBuilt => appliedRules = Len(Applied(gen))

\* The report of a document to which two rules apply and three do not; the
\* goroutines of the three are done all the same.
C17_Witness ==
  /\ LastBuilt
  /\ appliedRules = 2
  /\ Cardinality({r \in RuleIdx : NotSupported(gen, r) /\ pc[gen][r] = "done"}) = 3

\* C18: the Message of a built report is the not-supported message when no
\* result was collected, and then Score is 0; otherwise it is "Passed with a
\* score of <Score> points" when Score >= 0 and "Failed with a score of
\* <Score> points" when Score < 0, with the final Score of the report.
C18_MessageFollowsCountAndScore ==
  /\ LastBuilt => appliedRules = Len(sent[gen])
  /\ \A d \in Built :
       LET rep == reports[d]
       IN  IF Len(sent[d]) = 0
           THEN /\ rep.Message = "This resource kind is not supported by badrobot"
                /\ rep.Score = 0
           ELSE IF rep.Score >= 0
                THEN rep.Message =
                       "Passed with a score of " \o ToString(rep.Score) \o " points"
                ELSE rep.Message =
                       "Failed with a score of " \o ToString(rep.Score) \o " points"

\* A batch of a document that failed with a negative Score and of a document
\* of a kind no rule applies to.
C18_Witness ==
  /\ Len(reports) = 2
  /\ reports[1].Score < 0
  /\ reports[1].Message = "Failed with a score of " \o ToString(reports[1].Score) \o " points"
  /\ Len(sent[2]) = 0
  /\ reports[2].Message = "This resource kind is not supported by badrobot"

\* refs is in the order of RuleRefCustomOrder: Weight descending and, among
\* equal Weights, ID ascending.
InCustomOrder(refs) ==
  \A k, l \in 1..Len(refs) :
    k < l =>
      \/ refs[k].Weight > refs[l].Weight
      \/ refs[k].Weight = refs[l].Weight /\ IDRank(refs[k].ID) <= IDRank(refs[l].ID)

\* The results sent for document d that the collect loop puts in bucket b.
SentTo(d, b) == SelectSeq(sent[d], LAMBDA ref : Bucket(ref) = b)

NoDuplicates(refs) == \A k, l \in 1..Len(refs) : k # l => refs[k] # refs[l]

\* C20: Rules never holds two equal RuleRefs: a result equal in every field to
\* one already in Rules is not inserted, so that Rules holds each distinct
\* result collected once.
C20_RulesHoldsNoDuplicate ==
  /\ NoDuplicates(report.Rules)
  /\ mainpc = "collect" =>
       Elems(report.Rules) = Elems(SubSeq(sent[gen], 1, appliedRules))
  /\ \A d \in Built :
       /\ NoDuplicates(reports[d].Rules)
       /\ Elems(reports[d].Rules) = Elems(sent[d])
  /\ \A rep \in Elems(ret.reports) : NoDuplicates(rep.Rules)

\* Three results were collected, one of them equal to an earlier one: Rules
\* of the returned report holds two.
C20_Witness ==
  /\ ret.err = "nil"
  /\ appliedRules = 3
  /\ Len(sent[1]) = 3
  /\ sent[1][3] = sent[1][1]
  /\ Len(ret.reports[1].Rules) = 2

\* The value of a field, or its default when the document lacks the field.
OrDefault(field, default) == IF field = "nil" THEN default ELSE field

Privileged == rsRules[CHOOSE r \in RuleIdx : rsRules[r].ID = "Privileged"]

\* Document d is a Pod on which the Predicate of Privileged matches.
PrivilegedPod(d) ==
  /\ ManifestOf(json[d]).kind = "Pod"
  /\ ManifestOf(json[d]).count["Privileged"] > 0

C23_CRLFInputSplitOnCRLF ==
  /\ (mainpc # "start" /\ Contains(fileBytes, SepCRLF)) =>
       bits = Split(fileBytes, SepCRLF)
  /\ (ret.err # "pending" /\ fileBytes = JoinCRLF(<< <<"A">>, <<"B">> >>)) =>
       /\ ret.err = "nil"
       /\ Len(ret.reports) = 2

\* C24: at every point of Run, while the goroutines of a document run and
\* once Run has returned, rs.Rules is the list NewRuleset built: same length,
\* same order, same fields of every rule.
C24_CatalogUnchanged ==
  /\ Len(rs) = Len(rsRules)
  /\ \A r \in RuleIdx : rs[r] = rsRules[r]

\* Run has returned the reports of two documents, the goroutines of both done.
C24_Witness ==
  /\ ret.err = "nil"
  /\ Len(ret.reports) = 2
  /\ Len(sent[1]) = 2
  /\ \A r \in RuleIdx : pc[2][r] = "done"
  /\ rs = rsRules

\* The number of containers of the list that count: those whose runAsUser is
\* neither absent nor one of the values up to 10000.
RECURSIVE HighContainers(_)
HighContainers(cs) ==
  IF cs = <<>> THEN 0
  ELSE (IF Head(cs) \in {<<>>, <<1>>, <<999>>, <<10000>>} THEN 0 ELSE 1)
       + HighContainers(Tail(cs))

\* The manifests of Test_RunAsUser_InitContainers, Test_RunAsUser_Pod and
\* Test_RunAsUser_Pod_User_99999.
TestInitContainers ==
  [initContainers |-> << <<1>>, <<10001>> >>, containers |-> << <<>>, <<99999>> >>]
TestPod == [initContainers |-> <<>>, containers |-> << <<999>> >>]
TestPod99999 == [initContainers |-> <<>>, containers |-> << <<99999>> >>]

\* C25: RunAsUser returns the number of containers, over initContainers and
\* containers together, whose runAsUser is set and greater than 10000; the
\* three tests of the repository get 2, 0 and 1.
C25_RunAsUserCountsHighUIDs ==
  returned # <<>> =>
    /\ returned[1] = HighContainers(arg.initContainers \o arg.containers)
    /\ arg = TestInitContainers => returned[1] = 2
    /\ arg = TestPod => returned[1] = 0
    /\ arg = TestPod99999 => returned[1] = 1

\* RunAsUser returned 2 on the manifest of Test_RunAsUser_InitContainers.
C25_Witness ==
  /\ arg = TestInitContainers
  /\ returned = <<2>>

\* generateReport waits at wg.Wait() only for goroutines that can take a step:
\* one about to evaluate and send finds the channel open and short of full.
C26_WaitsOnlyForRunnableTasks ==
  (mainpc = "dispatch" /\ next > Len(rs) /\ wg[gen] # 0) =>
    /\ \E r \in RuleIdx : pc[gen][r] \in {"run", "sent"}
    /\ \A r \in RuleIdx :
         (pc[gen][r] = "run" /\ ~NotSupported(gen, r)) =>
           ~closed[gen] /\ Len(ch[gen]) < Capacity

\* C26: with every goroutine scheduled and every Predicate returning, the
\* evaluation of a document ends: every goroutine signals the WaitGroup, the
\* wait returns, the channel is closed and drained, and Run returns the
\* report; generateReport waits for nothing but goroutines that can run.
C26_EvaluationTerminates ==
  /\ []C26_WaitsOnlyForRunnableTasks
  /\ (mainpc = "dispatch") ~> (wg[1] = 0 /\ \A r \in RuleIdx : pc[1][r] = "done")
  /\ (mainpc = "dispatch") ~> (mainpc = "close")
  /\ (mainpc = "close") ~> (closed[1] /\ ch[1] = <<>> /\ Len(reports) = 1)
  /\ <>(ret.err = "nil" /\ Len(ret.reports) = 1)

\* Run returned the report of a Pod, every goroutine that had a result having
\* sent it.
C26_Witness ==
  /\ ret.err = "nil"
  /\ Len(ret.reports) = 1
  /\ ManifestOf(json[1]).kind = "Pod"
  /\ Len(sent[1]) = Len(Applied(1))
  /\ Len(sent[1]) >= 3
  /\ \A r \in RuleIdx : pc[1][r] = "done"

\* No ID occurs twice in refs.
DistinctIDs(refs) == \A k, l \in 1..Len(refs) : k # l => refs[k].ID # refs[l].ID

\* C27: the IDs of the catalog are pairwise distinct and a rule sends at most
\* one result per document, so that appendUniqueRule discards nothing: Rules
\* is as long as appliedRules is large, and no ID occurs twice in Rules or
\* twice over Critical, Passed and Advise together.
C27_OneRuleRefPerRule ==
  /\ \A a, b \in 1..Len(NewRuleset) : a # b => NewRuleset[a].ID # NewRuleset[b].ID
  /\ \A d \in DocIdx : DistinctIDs(sent[d])
  /\ mainpc = "collect" => Len(report.Rules) = appliedRules
  /\ LastBuilt => Len(reports[gen].Rules) = appliedRules
  /\ \A d \in Built :
       LET rep == reports[d]
       IN  /\ Len(rep.Rules) = Len(sent[d])
           /\ DistinctIDs(rep.Rules)
           /\ DistinctIDs(rep.Scoring.Critical \o rep.Scoring.Passed \o rep.Scoring.Advise)

\* The report of a document on which three rules sent a result, one to each
\* bucket: Rules holds the three.
C27_Witness ==
  /\ LastBuilt
  /\ appliedRules = 3
  /\ Len(reports[gen].Rules) = 3
  /\ \A b \in Buckets : Len(reports[gen].Scoring[b]) = 1

\* The entry grants, in the core API group and on pods or pods/exec, the verb
\* * or both get and create.
GrantsExec(e) ==
  LET has(xs, x) == \E j \in 1..Len(xs) : xs[j] = x
  IN  /\ has(e.apiGroups, "")
      /\ has(e.resources, "pods") \/ has(e.resources, "pods/exec")
      /\ has(e.verbs, "*") \/ (has(e.verbs, "get") /\ has(e.verbs, "create"))

\* C28 as stated: ExecPodsClusterRole returns 0 or 1, and 1 only if one entry
\* of the rules list by itself grants, in the core group and on pods or
\* pods/exec, the verb * or both get and create.
C28_OneOnlyIfOneEntryGrants ==
  returned # <<>> =>
    /\ returned[1] \in {0, 1}
    /\ returned[1] = 1 => \E k \in 1..Len(arg) : GrantsExec(arg[k])

====
